---- MODULE Spec2Model ----
(***************************************************************************)
(* A model of pipeline/stock_indicators.py: the two indicator functions    *)
(* of StockIndicators (calculate_macd, calculate_rsi), the screening loop  *)
(* of StockScreener.screen_by_indicators, and the __main__ block that      *)
(* runs it and reports any exception.                                      *)
(*                                                                         *)
(* Text is a tuple of one-character strings, so that endswith, splitext,   *)
(* replace and upper are computed as Python computes them.  A float cell   *)
(* of a pandas Series is NaN (the empty tuple) or <<v>>.  A DataFrame is a *)
(* function from column names to equally long columns.                     *)
(*                                                                         *)
(* TA-Lib is an external library.  The cell of the 'Close' column at a bar *)
(* is modelled by the three values TA-Lib derives at that bar from the     *)
(* closes up to it: its MACD line, its signal line and its RSI.            *)
(***************************************************************************)
EXTENDS Integers, Sequences, FiniteSets, TLC

VARIABLES
    dir_exists,    \* os.path.exists(stock_dir)
    listing,       \* os.listdir(stock_dir), in the order the platform gives
    out,           \* the output file: [exists, rows]
    pc,            \* position of the process: idle, files, indicators, done, failed
    indicators,    \* the indicator list of the current run
    fi,            \* number of entries of the listing already consumed
    stock_symbol,  \* symbol of the file being screened
    data,          \* the DataFrame of the file being screened (mutated in place)
    ii,            \* number of indicators already applied to data
    all_signals,   \* the list of per-(symbol, indicator) signal frames
    stdout,        \* what the current run has printed
    runs,          \* number of runs that have ended
    out_before,    \* history: the output file when the current run started
    batches,       \* history: indicator list and records of each completed run
    failed_at,     \* history: the (file, indicator) a failure of the run is tied to
    aux,           \* second element returned by the last direct indicator call
    called         \* the last direct indicator call: none, macd, rsi, and how it ended

vars == <<dir_exists, listing, out, pc, indicators, fi, stock_symbol, data, ii,
          all_signals, stdout, runs, out_before, batches, failed_at, aux, called>>

-----------------------------------------------------------------------------
(* Bounds of the model *)

MaxFiles == 2   \* entries in the input directory
MaxRuns == 2    \* runs of the process in one behaviour
MaxBars == 4    \* bars of a table handed directly to an indicator

-----------------------------------------------------------------------------
(* Text *)

Lower == <<"a","b","c","d","e","f","g","h","i","j","k","l","m",
           "n","o","p","q","r","s","t","u","v","w","x","y","z">>
Upper == <<"A","B","C","D","E","F","G","H","I","J","K","L","M",
           "N","O","P","Q","R","S","T","U","V","W","X","Y","Z">>
Digits == <<"0","1","2","3","4","5","6","7","8","9">>

upper_char(c) ==
    IF \E k \in DOMAIN Lower : Lower[k] = c
    THEN Upper[CHOOSE k \in DOMAIN Lower : Lower[k] = c]
    ELSE c

upper(s) == [k \in DOMAIN s |-> upper_char(s[k])]

endswith(s, suffix) ==
    /\ Len(s) >= Len(suffix)
    /\ SubSeq(s, Len(s) - Len(suffix) + 1, Len(s)) = suffix

RECURSIVE replace(_, _, _)
replace(s, old, new) ==
    IF Len(s) < Len(old) THEN s
    ELSE IF SubSeq(s, 1, Len(old)) = old
         THEN new \o replace(SubSeq(s, Len(old) + 1, Len(s)), old, new)
         ELSE <<Head(s)>> \o replace(Tail(s), old, new)

\* os.path.splitext(p)[0]: cut at the last dot, unless only dots precede it
splitext_root(name) ==
    LET dots == {k \in DOMAIN name : name[k] = "."}
        last == CHOOSE k \in dots : \A j \in dots : j <= k
    IN  IF dots = {} THEN name
        ELSE IF \A j \in 1..(last - 1) : name[j] = "." THEN name
        ELSE SubSeq(name, 1, last - 1)

contains(s, sub) ==
    \E k \in 0..(Len(s) - Len(sub)) : SubSeq(s, k + 1, k + Len(sub)) = sub

-----------------------------------------------------------------------------
(* Series *)

NaN == <<>>
None == <<>>
Num(v) == <<v>>

Lt(a, b) == a # NaN /\ b # NaN /\ a[1] < b[1]
Le(a, b) == a # NaN /\ b # NaN /\ a[1] <= b[1]
Gt(a, b) == Lt(b, a)
Ge(a, b) == Le(b, a)
Minus(a, b) == IF a = NaN \/ b = NaN THEN NaN ELSE Num(a[1] - b[1])

\* Series.shift(1)
shift(s) == [i \in DOMAIN s |-> IF i = 1 THEN NaN ELSE s[i - 1]]

NRows(df) == Len(df[CHOOSE c \in DOMAIN df : TRUE])

SetCol(df, c, s) == [k \in DOMAIN df \cup {c} |-> IF k = c THEN s ELSE df[k]]

-----------------------------------------------------------------------------
(* TA-Lib (external): the derived series of a 'Close' column *)

talib_MACD(close) ==
    [macd   |-> [i \in DOMAIN close |-> close[i].macd],
     signal |-> [i \in DOMAIN close |-> close[i].signal],
     hist   |-> [i \in DOMAIN close |-> Minus(close[i].macd, close[i].signal)]]

talib_RSI(close) == [i \in DOMAIN close |-> close[i].rsi]

\* config.RSI_CONFIG['low_line']
low_line == 30

-----------------------------------------------------------------------------
(* StockIndicators *)

CloseError ==
    [type |-> "ValueError",
     fmt  |-> "The input data must contain a 'Close' column.",
     args |-> <<>>]

DatetimeKeyError ==
    [type |-> "KeyError", fmt |-> "'Datetime'", args |-> <<>>]

\* a crossover flag that forgets the prior bar
cross_up_no_prior(macd, signal) ==
    [i \in DOMAIN macd |-> Gt(macd[i], signal[i])]

\* (macd.shift(1) <= signal.shift(1)) & (macd > signal)
cross_up(macd, signal) ==
    [i \in DOMAIN macd |->
        Le(shift(macd)[i], shift(signal)[i]) /\ Gt(macd[i], signal[i])]

\* an RSI flag that fires on every bar below the line
buy_every_bar_below(rsi) ==
    [i \in DOMAIN rsi |-> Lt(rsi[i], Num(low_line))]

\* an RSI flag with a non-strict comparison at the current bar
buy_on_touch(rsi) ==
    [i \in DOMAIN rsi |->
        Le(rsi[i], Num(low_line)) /\ Ge(shift(rsi)[i], Num(low_line))]

\* (rsi < low_line) & (rsi.shift(1) >= low_line)
rsi_buy(rsi) ==
    [i \in DOMAIN rsi |->
        Lt(rsi[i], Num(low_line)) /\ Ge(shift(rsi)[i], Num(low_line))]

\* the smallest instead of the greatest
series_min(S) == CHOOSE t \in S : \A u \in S : t <= u

\* Series.max()
series_max(S) == CHOOSE t \in S : \A u \in S : u <= t

\* data.loc[data['Buy Signal'], 'Datetime'].max()
\*     if not data.loc[data['Buy Signal']].empty else None
last_signal(df) ==
    LET flagged == {i \in 1..NRows(df) : df["Buy Signal"][i]}
    IN  IF flagged = {} THEN [raised |-> FALSE, value |-> None]
        ELSE IF "Datetime" \notin DOMAIN df
             THEN [raised |-> TRUE, value |-> None]
             ELSE [raised |-> FALSE,
                   value  |-> Num(series_max({df["Datetime"][i] : i \in flagged}))]

calculate_macd(df) ==
    IF "Close" \notin DOMAIN df
    THEN [raised |-> TRUE, exc |-> CloseError, tuple |-> TRUE,
          data |-> df, aux |-> None]
    ELSE LET t == talib_MACD(df["Close"])
             d1 == SetCol(df, "MACD", t.macd)
             d2 == SetCol(d1, "Signal Line", t.signal)
             d3 == SetCol(d2, "Histogram", t.hist)
             d4 == SetCol(d3, "Buy Signal", cross_up(t.macd, t.signal))
             last == last_signal(d4)
         IN  [raised |-> last.raised, exc |-> DatetimeKeyError, tuple |-> TRUE,
              data |-> d4, aux |-> last.value]

calculate_rsi(df) ==
    IF "Close" \notin DOMAIN df
    THEN [raised |-> TRUE, exc |-> CloseError, tuple |-> TRUE,
          data |-> df, aux |-> None]
    ELSE LET rsi == talib_RSI(df["Close"])
             d1 == SetCol(df, "RSI_1D", rsi)
             d2 == SetCol(d1, "Buy Signal", rsi_buy(rsi))
             last == last_signal(d2)
         IN  [raised |-> last.raised, exc |-> DatetimeKeyError, tuple |-> TRUE,
              data |-> d2, aux |-> last.value]

-----------------------------------------------------------------------------
(* The environment of a run: configuration, input directory, callers *)

\* config.STOCK_POST_DIR and config.CONSOLIDATED_OUTPUT_FILE
stock_dir == <<"p","o","s","t">>
output_file == <<"o","u","t",".","c","s","v">>

Bar(m, s, r) == [macd |-> m, signal |-> s, rsi |-> r]

AA_csv == <<"A","A",".","c","s","v">>
B_csv == <<"B",".","c","s","v">>
C_csv == <<"C",".","c","s","v">>
D_csv == <<"D",".","c","s","v">>
E_txt == <<"E",".","t","x","t">>
F_csv == <<"F",".","c","s","v">>

FileNames == {AA_csv, B_csv, C_csv, D_csv, E_txt, F_csv}

\* pd.read_csv(file_path) for each file the directory may hold:
\*   AA.csv  a MACD cross-up at its third bar, an RSI buy at its fourth
\*   B.csv   too short for any flag
\*   C.csv   a 'Close' column but no 'Datetime' column
\*   D.csv   a 'Datetime' column but no 'Close' column
\*   E.txt   not a .csv file
\*   F.csv   an RSI buy at its second bar, MACD still warming up
read_csv(file_name) ==
    CASE file_name = AA_csv ->
            [Datetime |-> <<<<"0","1">>, <<"0","2">>, <<"0","3">>, <<"0","4">>>>,
             Close |-> <<Bar(NaN, NaN, Num(31)), Bar(Num(0), Num(1), Num(31)),
                         Bar(Num(1), Num(0), Num(31)), Bar(Num(1), Num(0), Num(29))>>]
      [] file_name = B_csv ->
            [Datetime |-> <<<<"0","1">>, <<"0","2">>>>,
             Close |-> <<Bar(NaN, NaN, NaN), Bar(NaN, NaN, Num(31))>>]
      [] file_name = C_csv ->
            [Close |-> <<Bar(NaN, NaN, Num(31)), Bar(NaN, NaN, Num(29))>>]
      [] file_name = D_csv ->
            [Datetime |-> <<<<"0","1">>, <<"0","2">>>>]
      [] file_name = E_txt ->
            [Datetime |-> <<<<"0","1">>>>, Close |-> <<Bar(NaN, NaN, NaN)>>]
      [] file_name = F_csv ->
            [Datetime |-> <<<<"1","1">>, <<"1","2">>>>,
             Close |-> <<Bar(NaN, NaN, Num(30)), Bar(NaN, NaN, Num(29))>>]

digit_value(c) == (CHOOSE k \in DOMAIN Digits : Digits[k] = c) - 1

\* pd.to_datetime of one cell: a two-digit day text to a day number
parse_datetime(text) == 10 * digit_value(text[1]) + digit_value(text[2])

to_datetime(column) == [i \in DOMAIN column |-> parse_datetime(column[i])]

\* how to_csv writes a timestamp cell
format_datetime(t) == <<Digits[(t \div 10) + 1], Digits[(t % 10) + 1]>>

\* the indicator functions a caller may pass: the two of StockIndicators, and
\* "sma", any caller-supplied indicator that returns the table it was given
\* (not a tuple) and writes no 'Buy Signal' column
Indicators == {"macd", "rsi", "sma"}

\* the list __main__ passes
MainIndicators == <<"macd", "rsi">>

\* the lists a caller may pass
IndicatorLists ==
    {MainIndicators, <<"rsi", "macd">>, <<"macd", "sma">>, <<"sma">>, <<>>}

\* indicator.__name__
name_of(ind) ==
    CASE ind = "macd" -> <<"c","a","l","c","u","l","a","t","e","_","m","a","c","d">>
      [] ind = "rsi"  -> <<"c","a","l","c","u","l","a","t","e","_","r","s","i">>
      [] ind = "sma"  -> <<"c","a","l","c","u","l","a","t","e","_","s","m","a">>

\* indicator(data)
call(ind, df) ==
    CASE ind = "macd" -> calculate_macd(df)
      [] ind = "rsi"  -> calculate_rsi(df)
      [] ind = "sma"  -> [raised |-> FALSE, exc |-> CloseError, tuple |-> FALSE,
                          data |-> df, aux |-> None]

-----------------------------------------------------------------------------
(* StockScreener.screen_by_indicators and __main__ *)

HeaderRow ==
    <<<<"D","a","t","e","t","i","m","e">>,
      <<"s","y","m","b","o","l">>,
      <<"s","i","g","n","a","l"," ","t","y","p","e">>>>

\* a signal type that keeps the function's name as it is
raw_name(ind) == name_of(ind)

\* indicator.__name__.replace('calculate_', '').upper()
signal_type(ind) ==
    upper(replace(name_of(ind), <<"c","a","l","c","u","l","a","t","e","_">>, <<>>))

\* data.loc[data[signal_col], ['Datetime']] with the two columns added,
\* rows first..NRows(df) in table order
RECURSIVE signal_rows(_, _, _, _)
signal_rows(df, first, symbol, type) ==
    IF first > NRows(df) THEN <<>>
    ELSE (IF df["Buy Signal"][first]
          THEN <<[Datetime |-> df["Datetime"][first], symbol |-> symbol,
                  signal_type |-> type]>>
          ELSE <<>>)
         \o signal_rows(df, first + 1, symbol, type)

\* the frames one indicator adds to all_signals: one per 'Buy Signal' column
new_frames(df, symbol, ind) ==
    IF "Buy Signal" \in DOMAIN df
    THEN <<signal_rows(df, 1, symbol, signal_type(ind))>>
    ELSE <<>>

\* pd.concat(all_signals, ignore_index=True)
RECURSIVE concat(_)
concat(frames) ==
    IF frames = <<>> THEN <<>> ELSE Head(frames) \o concat(Tail(frames))

\* one row of to_csv(columns=['Datetime', 'symbol', 'signal type'])
csv_row(r) == <<format_datetime(r.Datetime), r.symbol, r.signal_type>>

csv_rows(frame) == [k \in DOMAIN frame |-> csv_row(frame[k])]

\* a header written on every call
header_always(file) == TRUE

\* header=not os.path.exists(output_file)
write_header(file) == ~file.exists

\* to_csv(output_file, mode='a', header=..., index=False, columns=[...])
to_csv(frame, file) ==
    [exists |-> TRUE,
     rows   |-> file.rows
                \o (IF write_header(file) THEN <<HeaderRow>> ELSE <<>>)
                \o csv_rows(frame)]

\* print(f"Error: {e}")
error_line(exc) == [kind |-> "Error: ", fmt |-> exc.fmt, args |-> exc.args]

info_line(fmt, args) == [kind |-> "", fmt |-> fmt, args |-> args]

NoPair == [file |-> <<>>, indicator |-> ""]

run_vars == <<indicators, fi, stock_symbol, data, ii, all_signals>>
direct_vars == <<aux, called>>

\* __main__ starts: StockScreener(stock_dir), then screen_by_indicators begins
StartRun(inds) ==
    /\ pc = "idle"
    /\ runs < MaxRuns
    /\ out_before' = out
    /\ failed_at' = NoPair
    /\ indicators' = inds
    /\ fi' = 0
    /\ ii' = 0
    /\ all_signals' = <<>>
    /\ IF dir_exists
       THEN /\ pc' = "files"
            /\ stdout' = <<>>
       ELSE /\ pc' = "failed"
            /\ stdout' = <<error_line(
                   [fmt |-> "The directory {} does not exist.",
                    args |-> <<stock_dir>>])>>
    /\ UNCHANGED <<dir_exists, listing, out, stock_symbol, data, runs, batches,
                   direct_vars>>

\* one iteration of the loop over os.listdir, up to the indicator loop
NextFile ==
    /\ pc = "files"
    /\ fi < Len(listing)
    /\ LET file_name == listing[fi + 1]
           loaded == read_csv(file_name)
       IN  IF ~endswith(file_name, <<".","c","s","v">>)
           THEN /\ fi' = fi + 1
                /\ UNCHANGED <<pc, stock_symbol, data, stdout, failed_at>>
           ELSE /\ stock_symbol' = splitext_root(file_name)
                /\ IF "Datetime" \notin DOMAIN loaded
                   THEN /\ data' = loaded
                        /\ pc' = "failed"
                        /\ stdout' = Append(stdout, error_line(
                               [fmt |-> "The file {} must contain a 'Datetime' column.",
                                args |-> <<file_name>>]))
                        /\ failed_at' = [file |-> file_name, indicator |-> ""]
                        /\ fi' = fi
                   ELSE /\ data' = SetCol(loaded, "Datetime",
                                          to_datetime(loaded["Datetime"]))
                        /\ IF indicators = <<>>
                           THEN fi' = fi + 1 /\ pc' = "files"
                           ELSE fi' = fi /\ pc' = "indicators"
                        /\ UNCHANGED <<stdout, failed_at>>
    /\ ii' = 0
    /\ UNCHANGED <<dir_exists, listing, out, indicators, all_signals, runs,
                   out_before, batches, direct_vars>>

\* one iteration of the loop over the indicators
ApplyIndicator ==
    /\ pc = "indicators"
    /\ LET indicator == indicators[ii + 1]
           result == call(indicator, data)
       IN  /\ data' = result.data
           /\ IF result.raised
              THEN /\ pc' = "failed"
                   /\ stdout' = Append(stdout, error_line(result.exc))
                   /\ failed_at' = [file |-> listing[fi + 1],
                                    indicator |-> indicator]
                   /\ UNCHANGED <<all_signals, ii, fi>>
              ELSE /\ all_signals' = all_signals
                                     \o new_frames(result.data, stock_symbol, indicator)
                   /\ IF ii + 1 = Len(indicators)
                      THEN ii' = 0 /\ fi' = fi + 1 /\ pc' = "files"
                      ELSE ii' = ii + 1 /\ fi' = fi /\ pc' = "indicators"
                   /\ UNCHANGED <<stdout, failed_at>>
    /\ UNCHANGED <<dir_exists, listing, out, indicators, stock_symbol, runs,
                   out_before, batches, direct_vars>>

\* after the loops: concat and to_csv, or "No signals detected."
Sink ==
    /\ pc = "files"
    /\ fi = Len(listing)
    /\ IF all_signals # <<>>
       THEN /\ out' = to_csv(concat(all_signals), out)
            /\ stdout' = Append(stdout,
                   info_line("Signals appended to {}", <<output_file>>))
       ELSE /\ out' = out
            /\ stdout' = Append(stdout, info_line("No signals detected.", <<>>))
    /\ pc' = "done"
    /\ batches' = Append(batches, [indicators |-> indicators,
                                   frames |-> Len(all_signals),
                                   records |-> concat(all_signals)])
    /\ UNCHANGED <<dir_exists, listing, run_vars, runs, out_before, failed_at,
                   direct_vars>>

\* to_csv cannot open the destination
SinkFails ==
    /\ pc = "files"
    /\ fi = Len(listing)
    /\ all_signals # <<>>
    /\ pc' = "failed"
    /\ stdout' = Append(stdout, error_line(
           [fmt |-> "[Errno 13] Permission denied: {}", args |-> <<output_file>>]))
    /\ UNCHANGED <<dir_exists, listing, out, run_vars, runs, out_before, batches,
                   failed_at, direct_vars>>

\* the process ends; it may be started again
Exit ==
    /\ pc \in {"done", "failed"}
    /\ pc' = "idle"
    /\ runs' = runs + 1
    /\ UNCHANGED <<dir_exists, listing, out, run_vars, stdout, out_before, batches,
                   failed_at, direct_vars>>

RECURSIVE Listings(_)
Listings(n) ==
    IF n = 0 THEN {<<>>}
    ELSE Listings(n - 1)
         \cup {Append(l, f) : l \in {x \in Listings(n - 1) : Len(x) = n - 1},
                              f \in FileNames}

DistinctListings ==
    {l \in Listings(MaxFiles) : \A i, j \in DOMAIN l : i # j => l[i] # l[j]}

Init ==
    /\ dir_exists \in BOOLEAN
    /\ listing \in (IF dir_exists THEN DistinctListings ELSE {<<>>})
    /\ out = [exists |-> FALSE, rows |-> <<>>]
    /\ pc = "idle"
    /\ indicators = <<>>
    /\ fi = 0
    /\ stock_symbol = <<>>
    /\ data = [Datetime |-> <<>>]
    /\ ii = 0
    /\ all_signals = <<>>
    /\ stdout = <<>>
    /\ runs = 0
    /\ out_before = [exists |-> FALSE, rows |-> <<>>]
    /\ batches = <<>>
    /\ failed_at = NoPair
    /\ aux = None
    /\ called = "none"

Next ==
    \/ \E inds \in IndicatorLists : StartRun(inds)
    \/ NextFile
    \/ ApplyIndicator
    \/ Sink
    \/ SinkFails
    \/ Exit

Spec == Init /\ [][Next]_vars

-----------------------------------------------------------------------------
(* The indicator functions called directly on a table *)

MacdPairs == {<<0, 1>>, <<1, 1>>, <<1, 0>>}
RsiValues == {low_line - 1, low_line, low_line + 1}

\* what TA-Lib can derive at one bar: RSI undefined, RSI defined and MACD still
\* undefined, or both defined (RSI then off its line, to keep the set small)
Bars ==
    {Bar(NaN, NaN, NaN)}
    \cup {Bar(NaN, NaN, Num(r)) : r \in RsiValues}
    \cup {Bar(Num(p[1]), Num(p[2]), Num(r)) :
              p \in MacdPairs, r \in RsiValues \ {low_line}}

\* a series is undefined on a warm-up prefix and defined after it
FollowsWarmUp(close, b) ==
    \/ close = <<>>
    \/ /\ close[Len(close)].rsi # NaN => b.rsi # NaN
       /\ close[Len(close)].macd # NaN => b.macd # NaN

\* the one-bar tables a caller may start from: a parsed 'Datetime' column or
\* none, a 'Close' column or none
FirstTables ==
    {[Datetime |-> <<t>>, Close |-> <<b>>] : t \in {1, MaxBars}, b \in Bars}
    \cup {[Close |-> <<b>>] : b \in Bars}
    \cup {[Datetime |-> <<1>>]}

InitDirect ==
    /\ data \in FirstTables
    /\ aux = None
    /\ called = "none"
    /\ dir_exists = TRUE
    /\ listing = <<>>
    /\ out = [exists |-> FALSE, rows |-> <<>>]
    /\ pc = "direct"
    /\ indicators = <<>>
    /\ fi = 0
    /\ stock_symbol = <<>>
    /\ ii = 0
    /\ all_signals = <<>>
    /\ stdout = <<>>
    /\ runs = 0
    /\ out_before = [exists |-> FALSE, rows |-> <<>>]
    /\ batches = <<>>
    /\ failed_at = NoPair

pipeline_vars == <<dir_exists, listing, out, pc, indicators, fi, stock_symbol, ii,
                   all_signals, stdout, runs, out_before, batches, failed_at>>

\* data, last = StockIndicators.calculate_macd(data)
CallMacd ==
    /\ pc = "direct"
    /\ called = "none"
    /\ LET result == calculate_macd(data)
       IN  /\ data' = result.data
           /\ aux' = result.aux
           /\ called' = IF result.raised THEN "macd raised" ELSE "macd"
    /\ UNCHANGED pipeline_vars

\* data, last = StockIndicators.calculate_rsi(data)
CallRsi ==
    /\ pc = "direct"
    /\ called = "none"
    /\ LET result == calculate_rsi(data)
       IN  /\ data' = result.data
           /\ aux' = result.aux
           /\ called' = IF result.raised THEN "rsi raised" ELSE "rsi"
    /\ UNCHANGED pipeline_vars

\* the caller's table gets one more bar before it is handed over; timestamps
\* run upwards from 1 (sorted) or downwards from MaxBars (newest first)
AppendBar(b) ==
    /\ pc = "direct"
    /\ called = "none"
    /\ NRows(data) < MaxBars
    /\ "Close" \in DOMAIN data => FollowsWarmUp(data["Close"], b)
    /\ data' = [c \in DOMAIN data |->
                   IF c = "Close" THEN Append(data[c], b)
                   ELSE Append(data[c],
                               IF data[c][1] = 1 THEN NRows(data) + 1
                               ELSE MaxBars - NRows(data))]
    /\ UNCHANGED <<aux, called>>
    /\ UNCHANGED pipeline_vars

NextDirect ==
    \/ \E b \in Bars : AppendBar(b)
    \/ CallMacd
    \/ CallRsi

SpecDirect == InitDirect /\ [][NextDirect]_vars

-----------------------------------------------------------------------------
(* Properties of the indicator functions, under SpecDirect *)

ReturnedMacd == pc = "direct" /\ called = "macd"
ReturnedRsi == pc = "direct" /\ called = "rsi"

BarsOf == 1..NRows(data)
Flagged == {i \in BarsOf : data["Buy Signal"][i]}

\* the MACD line and the signal line are both numbers at bar i
MacdDefinedAt(i) == data["MACD"][i] # NaN /\ data["Signal Line"][i] # NaN
MacdAt(i) == data["MACD"][i][1]
SignalAt(i) == data["Signal Line"][i][1]

RsiDefinedAt(i) == data["RSI_1D"][i] # NaN
RsiAt(i) == data["RSI_1D"][i][1]

\* C4: after calculate_macd, bar i is flagged if and only if it has a
\* predecessor, the MACD line and the signal line are defined at both bars,
\* MACD <= signal at the predecessor and MACD > signal at i; so the first
\* bar, and any bar that is or follows an undefined bar, is never flagged.
C4_MacdFlagIffCrossUp ==
    ReturnedMacd =>
        /\ \A i \in BarsOf :
               (i \in Flagged) <=>
                   /\ i > 1
                   /\ MacdDefinedAt(i - 1)
                   /\ MacdDefinedAt(i)
                   /\ MacdAt(i - 1) <= SignalAt(i - 1)
                   /\ MacdAt(i) > SignalAt(i)
        /\ 1 \notin Flagged
        /\ \A i \in BarsOf :
               (~MacdDefinedAt(i) \/ (i > 1 /\ ~MacdDefinedAt(i - 1)))
                   => i \notin Flagged

\* a table with a flagged cross-up, and with a bar above the signal line that
\* is not flagged because its predecessor is still undefined
C4_Witness ==
    /\ ReturnedMacd
    /\ Flagged # {}
    /\ \E i \in BarsOf :
           /\ i > 1
           /\ MacdDefinedAt(i)
           /\ MacdAt(i) > SignalAt(i)
           /\ ~MacdDefinedAt(i - 1)
           /\ i \notin Flagged

\* bars first..last are a dip: all below the line, entered from a defined bar
\* at or above it
RsiDip(first, last) ==
    /\ first > 1
    /\ first <= last
    /\ RsiDefinedAt(first - 1)
    /\ RsiAt(first - 1) >= low_line
    /\ \A k \in first..last : RsiDefinedAt(k) /\ RsiAt(k) < low_line

\* C5: after calculate_rsi, bar i is flagged if and only if RSI is defined at
\* i-1 and i, RSI[i] < low_line and RSI[i-1] >= low_line; within a dip below
\* low_line the flag is at the first bar of the dip, at no later bar of it,
\* and not at the bar where RSI is back at or above the line.
C5_RsiFlagAtFirstBarBelow ==
    ReturnedRsi =>
        /\ \A i \in BarsOf :
               (i \in Flagged) <=>
                   /\ i > 1
                   /\ RsiDefinedAt(i - 1)
                   /\ RsiDefinedAt(i)
                   /\ RsiAt(i) < low_line
                   /\ RsiAt(i - 1) >= low_line
        /\ \A first, last \in BarsOf :
               RsiDip(first, last) =>
                   /\ first \in Flagged
                   /\ \A k \in (first + 1)..last : k \notin Flagged
                   /\ (/\ last + 1 \in BarsOf
                       /\ RsiDefinedAt(last + 1)
                       /\ RsiAt(last + 1) >= low_line)
                          => (last + 1) \notin Flagged

\* a dip of two bars followed by a recovery bar
C5_Witness ==
    /\ ReturnedRsi
    /\ \E first \in BarsOf :
           /\ first + 2 \in BarsOf
           /\ RsiDip(first, first + 1)
           /\ RsiDefinedAt(first + 2)
           /\ RsiAt(first + 2) > low_line
           /\ Flagged = {first}

Returned == ReturnedMacd \/ ReturnedRsi
LastFlagged == CHOOSE i \in Flagged : \A j \in Flagged : j <= i

\* C7 as stated: the second element returned is the timestamp of the flagged
\* bar of highest index, and None exactly when no bar is flagged.
C7_AuxIsTimestampOfLastFlaggedIndex ==
    Returned =>
        /\ (aux = None) <=> (Flagged = {})
        /\ Flagged # {} => aux = Num(data["Datetime"][LastFlagged])

\* C7 amended: the second element returned is None exactly when no bar is
\* flagged; otherwise it is the greatest timestamp among the flagged bars,
\* hence the timestamp of some flagged bar, and it is the timestamp of the
\* flagged bar of highest index when the timestamps of the table ascend.
C7_AuxIsGreatestFlaggedTimestamp ==
    Returned =>
        /\ (aux = None) <=> (Flagged = {})
        /\ Flagged # {} =>
               /\ \E i \in Flagged : aux = Num(data["Datetime"][i])
               /\ \A i \in Flagged : data["Datetime"][i] <= aux[1]
               /\ (\A i, j \in BarsOf :
                       i < j => data["Datetime"][i] < data["Datetime"][j])
                      => aux = Num(data["Datetime"][LastFlagged])

\* two flagged bars in a table whose timestamps descend
C7_Witness ==
    /\ Returned
    /\ Cardinality(Flagged) >= 2
    /\ \A i, j \in BarsOf : i < j => data["Datetime"][i] > data["Datetime"][j]
    /\ aux # Num(data["Datetime"][LastFlagged])

-----------------------------------------------------------------------------
(* Properties of the screening run, under Spec *)

CsvFiles == {k \in DOMAIN listing : endswith(listing[k], <<".","c","s","v">>)}

ValidFile(file_name) ==
    {"Datetime", "Close"} \subseteq DOMAIN read_csv(file_name)

\* the bars of a 'Close' column that an indicator flags in its own invocation,
\* bar by bar from the derived values
FlagsBy(ind, close) ==
    CASE ind = "macd" ->
            {i \in 2..Len(close) :
                /\ close[i - 1].macd # NaN /\ close[i - 1].signal # NaN
                /\ close[i].macd # NaN /\ close[i].signal # NaN
                /\ close[i - 1].macd[1] <= close[i - 1].signal[1]
                /\ close[i].macd[1] > close[i].signal[1]}
      [] ind = "rsi" ->
            {i \in 2..Len(close) :
                /\ close[i - 1].rsi # NaN /\ close[i].rsi # NaN
                /\ close[i].rsi[1] < low_line
                /\ close[i - 1].rsi[1] >= low_line}
      [] ind = "sma" -> {}

SymbolOf(file_name) == SubSeq(file_name, 1, Len(file_name) - 4)

TypeOf(ind) ==
    CASE ind = "macd" -> <<"M","A","C","D">>
      [] ind = "rsi"  -> <<"R","S","I">>
      [] ind = "sma"  -> <<"S","M","A">>

\* the record the flagged bar i of a file is due under an indicator
RecordOf(file_name, ind, i) ==
    [Datetime    |-> parse_datetime(read_csv(file_name)["Datetime"][i]),
     symbol      |-> SymbolOf(file_name),
     signal_type |-> TypeOf(ind)]

\* <<entry of the listing, indicator, bar>> for every bar an indicator of the
\* list flags in a valid .csv file
DueOf(inds) ==
    UNION {{<<p[1], p[2], i>> :
                i \in FlagsBy(p[2], read_csv(listing[p[1]])["Close"])} :
           p \in {q \in CsvFiles \X Indicators :
                      /\ \E k \in DOMAIN inds : inds[k] = q[2]
                      /\ ValidFile(listing[q[1]])}}

Count(x, seq) == Cardinality({k \in DOMAIN seq : seq[k] = x})

RECURSIVE AllRecords(_)
AllRecords(bs) ==
    IF bs = <<>> THEN <<>> ELSE Head(bs).records \o AllRecords(Tail(bs))

\* what this run has appended to the destination
Appended == SubSeq(out.rows, Len(out_before.rows) + 1, Len(out.rows))

RunEnded == pc \in {"done", "failed"}

\* C1 as stated, for runs as __main__ starts them: after n >= 1 completed runs
\* into a destination that was absent, the destination holds the header once,
\* as its first row, then the records of the runs in order; two runs over the
\* unchanged input leave every record twice and the header once.
C1_HeaderOnceThenEveryRun ==
    (/\ Len(batches) >= 1
     /\ \A k \in DOMAIN batches : batches[k].indicators = MainIndicators) =>
        /\ out.exists
        /\ out.rows = <<HeaderRow>> \o csv_rows(AllRecords(batches))
        /\ Count(HeaderRow, out.rows) = 1
        /\ (Len(batches) = 2 /\ batches[1].indicators = batches[2].indicators)
               => \A k \in DOMAIN batches[1].records :
                      Count(csv_row(batches[1].records[k]), out.rows)
                          = 2 * Count(batches[1].records[k], batches[1].records)

\* C1 amended: the same, provided at least one of the completed runs collected
\* a signal frame (it found a 'Buy Signal' column for some .csv file and
\* indicator); while no completed run has, the destination is still absent.
C1_HeaderOnceOnceAnyRunCollected ==
    /\ (\E k \in DOMAIN batches : batches[k].frames > 0) =>
           /\ out.exists
           /\ out.rows = <<HeaderRow>> \o csv_rows(AllRecords(batches))
           /\ Count(HeaderRow, out.rows) = 1
           /\ (Len(batches) = 2 /\ batches[1].indicators = batches[2].indicators)
                  => \A k \in DOMAIN batches[1].records :
                         Count(csv_row(batches[1].records[k]), out.rows)
                             = 2 * Count(batches[1].records[k], batches[1].records)
    /\ (\A k \in DOMAIN batches : batches[k].frames = 0) =>
           /\ ~out.exists
           /\ out.rows = <<>>

\* two completed runs of the same indicators, each with records
C1_Witness ==
    /\ Len(batches) = 2
    /\ batches[1].indicators = batches[2].indicators
    /\ batches[1].records # <<>>
    /\ Len(out.rows) = 1 + 2 * Len(batches[1].records)

\* C2 as stated: when a run fails at one symbol, every other valid symbol of
\* the directory is still processed under every indicator and its records
\* are persisted to the log in that run.
C2_OtherSymbolsStillPersisted ==
    (pc = "failed" /\ failed_at.file # <<>>) =>
        \A e \in DueOf(indicators) :
            listing[e[1]] # failed_at.file =>
                Count(csv_row(RecordOf(listing[e[1]], e[2], e[3])), Appended) >= 1

\* C3: when a run of [calculate_macd, calculate_rsi] completes, the batch it
\* hands to the sink holds one record for every bar that MACD or RSI flagged
\* in a .csv file and no other record; the record is (timestamp of the bar,
\* file name without .csv, MACD or RSI), and the rows written are in the
\* order timestamp, symbol, signal type.
C3_BatchIsExactlyTheFlaggedBars ==
    (pc = "done" /\ indicators = MainIndicators) =>
        LET batch == concat(all_signals)
            due == DueOf(indicators)
            rec(e) == RecordOf(listing[e[1]], e[2], e[3])
        IN  /\ Len(batch) = Cardinality(due)
            /\ \A e \in due :
                   Count(rec(e), batch)
                       = Cardinality({d \in due : rec(d) = rec(e)})
            /\ \A k \in DOMAIN batch : \E e \in due : batch[k] = rec(e)
            /\ Len(Appended) >= Len(batch)
            /\ \A k \in DOMAIN batch :
                   Appended[Len(Appended) - Len(batch) + k]
                       = <<format_datetime(batch[k].Datetime), batch[k].symbol,
                           batch[k].signal_type>>

\* a completed run whose batch holds a MACD record and an RSI record
C3_Witness ==
    /\ pc = "done"
    /\ indicators = MainIndicators
    /\ \E j, k \in DOMAIN concat(all_signals) :
           /\ concat(all_signals)[j].signal_type = <<"M","A","C","D">>
           /\ concat(all_signals)[k].signal_type = <<"R","S","I">>
           /\ concat(all_signals)[k].symbol = <<"A","A">>

\* C8 as stated: a run that fails prints a diagnostic, and when the failure
\* is tied to a (symbol, indicator) pair the diagnostic names the symbol and
\* the indicator.
C8_DiagnosticNamesSymbolAndIndicator ==
    pc = "failed" =>
        \E k \in DOMAIN stdout :
            /\ stdout[k].kind = "Error: "
            /\ failed_at.indicator # "" =>
                   /\ \E a \in DOMAIN stdout[k].args :
                          contains(stdout[k].args[a], SymbolOf(failed_at.file))
                   /\ \E a \in DOMAIN stdout[k].args :
                          contains(upper(stdout[k].args[a]),
                                   TypeOf(failed_at.indicator))

\* C9 as stated, for a run as __main__ starts it: a run that raises, and a run
\* that collects no record, leaves the destination as it was before the run;
\* the destination is written only by a run that collected at least one
\* record.
C9_NoRecordNoWrite ==
    (RunEnded /\ indicators = MainIndicators) =>
        /\ (pc = "failed" \/ concat(all_signals) = <<>>) => out = out_before
        /\ out # out_before => concat(all_signals) # <<>>

\* C10 as stated: every record collected with signal type T for a symbol is a
\* bar that the indicator named T flagged in its own invocation on that
\* symbol's file.
C10_RecordsComeFromOwnFlags ==
    \A k \in DOMAIN concat(all_signals) :
        LET r == concat(all_signals)[k]
        IN  \E f \in CsvFiles, ind \in Indicators :
                /\ SymbolOf(listing[f]) = r.symbol
                /\ TypeOf(ind) = r.signal_type
                /\ ValidFile(listing[f])
                /\ \E i \in FlagsBy(ind, read_csv(listing[f])["Close"]) :
                       parse_datetime(read_csv(listing[f])["Datetime"][i])
                           = r.Datetime

====
